---- MODULE Spec2Model ----
(***************************************************************************)
(* The real-time location-update reconciliation core of the tram tracker:  *)
(* TramMovement (the reconciler) and WebSocketGPSService (the channel      *)
(* client), with the socket.io transport, the gsap animation engine and    *)
(* the caller as the environment.                                          *)
(*                                                                         *)
(* Units.  Latitudes and longitudes are integers in micro-degrees.  The    *)
(* scene projection multiplies degrees by 100000, so one micro-degree is   *)
(* one tenth of a scene unit: positions are integers in tenths of a scene  *)
(* unit.  Times are integers in milliseconds.  A falsy JavaScript value    *)
(* (null, undefined, 0, '') in a time field is the number Absent.          *)
(***************************************************************************)
EXTENDS Integers, Sequences, FiniteSets, TLC

VARIABLES
  tm,        \* the fields of the TramMovement instance
  tram,      \* the tram object of the scene: its position
  orphans,   \* gsap animations in flight that no field of tm refers to
  services,  \* every WebSocketGPSService the instance has created, in order
  disposed,  \* TramMovement.dispose() has returned
  last,      \* what the last step was: a record of the run, read by no operation
  bus,       \* a channel client's list of update subscribers, with subscribers
             \* of any kind, and what each of them has been called with
  link,      \* a channel client's connection attempts: its configuration, its
             \* counter, and the retries socket.io makes for its socket
  turn       \* tram.rotation.y and the rotation of the last timeline

vars == <<tm, tram, orphans, services, disposed, last, bus, link, turn>>

NULL == [null |-> TRUE]

\* ------------------------------------------------------------ bounds
\* The objects the model lets pile up beyond the ones the constructor makes:
\* channel clients made by configureWebSocket, animations nothing refers to,
\* pending reconnect timers, and callbacks on the current client that no
\* unsubscribe handle refers to.
MaxLoad == 1

\* The accepted messages a channel client dispatches to its subscribers.
MaxMessages == 2

\* The failed connection attempts a channel client is followed through.
MaxCounted == 8

\* How far from 0 tram.rotation.y is followed, in eighths of a turn.
MaxRotation == 16

\* ------------------------------------------------------------ program constants
Absent == 0                 \* a falsy timestamp
StaleThresholdMs == 60000   \* isGPSDataStale's maxAgeMs default
ToleranceMicroDeg == 5      \* hasGPSChanged's tolerance, 0.000005 degrees
MinDistanceTenths == 5      \* updateTramPosition's 0.5 scene units
PreviousAgeMs == 5000       \* the age given to a previous point without a time
MaxLat == 90000000
MaxLon == 180000000

\* The static route handed to the constructor (TramTracker passes its gpsRoute).
fallbackGPSPoints ==
  << [lat |-> 13612562, lon |-> 100836516],
     [lat |-> 13612568, lon |-> 100836516] >>

\* constructor: the centre of the projection is the midpoint of the route's ends
centerLat ==
  (fallbackGPSPoints[1].lat + fallbackGPSPoints[Len(fallbackGPSPoints)].lat) \div 2
centerLon ==
  (fallbackGPSPoints[1].lon + fallbackGPSPoints[Len(fallbackGPSPoints)].lon) \div 2

\* Date.now().  The clock stands still during a run: how old an inbound
\* timestamp is, which is all the code asks of the clock, is an input.
now == 2 * StaleThresholdMs

\* ------------------------------------------------------------ inputs
\* Coordinates the server pushes and the caller injects: the two points of the
\* route, which are more than the tolerance apart.
Coords ==
  { <<fallbackGPSPoints[1].lat, centerLon>>,
    <<fallbackGPSPoints[2].lat, centerLon>> }

\* A point within the tolerance of both.
Near == <<centerLat, centerLon>>

\* A latitude out of range.
BadLat == MaxLat + 1000000

\* The c field of an inbound message: missing, out of range, or a point whose
\* t is absent or just beyond the staleness threshold.
CValues ==
  {NULL} \cup {[lat |-> BadLat, lon |-> centerLon, t |-> Absent]}
         \cup {[lat |-> c[1], lon |-> c[2], t |-> t] :
                 c \in Coords, t \in {Absent, now - StaleThresholdMs - 1}}

\* The p field of an inbound message, when it has one: a point without a time.
PValue == [lat |-> fallbackGPSPoints[2].lat, lon |-> centerLon, t |-> Absent]

\* Inbound messages: every c with a p, and one message without p.
Messages ==
  {[c |-> c, p |-> PValue] : c \in CValues}
    \cup {[c |-> [lat |-> Near[1], lon |-> Near[2], t |-> Absent], p |-> NULL]}

\* ------------------------------------------------------------ pure functions
\* calculatePosition with a scale of 10000 instead of 100000.
calculatePositionScale10000(lat, lon) ==
  [x |-> (lat - centerLat) \div 10, z |-> (lon - centerLon) \div 10]

\* TramMovement.calculatePosition, in tenths of a scene unit (y is the constant
\* baseHeight and is left out).
calculatePosition(lat, lon) == [x |-> lat - centerLat, z |-> lon - centerLon]

Abs(n) == IF n < 0 THEN -n ELSE n

\* isGPSDataStale taking a point without a time for a fresh one.
isGPSDataStaleAbsentIsFresh(timestamp, t) ==
  IF timestamp = Absent THEN FALSE ELSE (t - timestamp) > StaleThresholdMs

\* WebSocketGPSService.isGPSDataStale (the second definition, which the class keeps)
isGPSDataStale(timestamp, t) ==
  IF timestamp = Absent THEN TRUE ELSE (t - timestamp) > StaleThresholdMs

\* The hasGPSChanged that WebSocketGPSService defines first (threshold
\* 0.000001), which the later definition of the same name replaces.
hasGPSChangedFirstDefinition(newGPS, oldGPS) ==
  IF oldGPS = NULL \/ newGPS = NULL THEN TRUE
  ELSE \/ Abs(newGPS.lat - oldGPS.lat) > 1
       \/ Abs(newGPS.lon - oldGPS.lon) > 1

\* WebSocketGPSService.hasGPSChanged (the second definition, which the class keeps)
hasGPSChanged(current, previous) ==
  IF current = NULL \/ previous = NULL THEN TRUE
  ELSE \/ Abs(current.lat - previous.lat) > ToleranceMicroDeg
       \/ Abs(current.lon - previous.lon) > ToleranceMicroDeg

\* WebSocketGPSService.isValidGPSData
isValidGPSData(data) ==
  IF data = NULL THEN FALSE
  ELSE /\ data.lat >= -MaxLat /\ data.lat <= MaxLat
       /\ data.lon >= -MaxLon /\ data.lon <= MaxLon

\* ------------------------------------------------------------ the world
\* The operations below are functions from world to world, so that a handler
\* that calls other methods (a socket event that notifies subscribers, which
\* call back into the channel client) is one step.  What the step puts out is
\* kept with the world: W.changes lists the notifyConnectionChange calls (the
\* client and the value), W.errors counts the error callbacks invoked, W.thrown
\* tells that an exception left the handler, and W.sent counts the
\* 'request-gps-data' signals emitted to the server during the step.
World ==
  [tm |-> tm, tram |-> tram, orphans |-> orphans, svc |-> services, sent |-> 0,
   changes |-> <<>>, errors |-> 0, thrown |-> FALSE]

\* A gsap timeline or tween: where it takes the tram, and whether it is still
\* running.
NewTween(kind, target) == [kind |-> kind, target |-> target, status |-> "active"]

\* gsap's kill(): the animation stops where it is; its onComplete never runs.
kill(tween) == [tween EXCEPT !.status = "killed"]

IsActive(tween) == tween # NULL /\ tween.status = "active"

\* The animations in flight against the tram: the timeline tm.currentTween
\* refers to, if it is still running, and the ones nothing refers to.
InFlight(W) ==
  (IF IsActive(W.tm.currentTween) THEN <<W.tm.currentTween>> ELSE <<>>) \o W.orphans

\* An animation that is dropped by the field that referred to it keeps running
\* unless it was killed or has completed.
Dropped(W, tween) ==
  IF IsActive(tween) THEN [W EXCEPT !.orphans = Append(@, tween)] ELSE W

\* ------------------------------------------------------------ WebSocketGPSService
\* requestGPSData emitting without looking at the connection.
requestGPSDataUnguarded(W, s) == [W EXCEPT !.sent = @ + 1]

\* WebSocketGPSService.requestGPSData
requestGPSData(W, s) ==
  IF W.svc[s].isConnected /\ W.svc[s].socket # "null"
  THEN [W EXCEPT !.sent = @ + 1]
  ELSE W

\* WebSocketGPSService.isConnectionHealthy
isConnectionHealthy(W, s) ==
  W.svc[s].isConnected /\ W.svc[s].socket = "connected"

\* ------------------------------------------------------------ TramMovement
\* stopTramMovement cancelling the transition but leaving isMoving as it is.
stopTramMovementKeepsMoving(W) ==
  LET old == W.tm.currentTween
  IN  IF old # NULL
      THEN [Dropped(W, kill(old)) EXCEPT !.tm.currentTween = NULL]
      ELSE W

\* TramMovement.stopTramMovement
stopTramMovement(W) ==
  LET old == W.tm.currentTween
      W1 == IF old # NULL
            THEN [Dropped(W, kill(old)) EXCEPT !.tm.currentTween = NULL]
            ELSE W
  IN  [W1 EXCEPT !.tm.isMoving = FALSE]

\* positionTramImmediately recording the position without moving the tram.
positionTramImmediatelyLeavesTram(W, lat, lon) ==
  [W EXCEPT !.tm.lastKnownPosition = calculatePosition(lat, lon)]

\* TramMovement.positionTramImmediately
positionTramImmediately(W, lat, lon) ==
  LET position == calculatePosition(lat, lon)
  IN  [W EXCEPT !.tram = position, !.tm.lastKnownPosition = position]

\* The timeline updateTramPosition builds, and what it does with the old one.
StartTimeline(W, currentPosition) ==
  LET old == W.tm.currentTween
      W1 == IF old # NULL THEN Dropped(W, kill(old)) ELSE W
  IN  [W1 EXCEPT !.tm.currentTween = NewTween("timeline", currentPosition),
                 !.tm.isMoving = TRUE]

\* TramMovement.updateTramPosition
updateTramPosition(W) ==
  IF W.tm.currentGPS = NULL \/ W.tm.previousGPS = NULL THEN W
  ELSE
    LET currentPosition == calculatePosition(W.tm.currentGPS.lat, W.tm.currentGPS.lon)
        previousPosition == calculatePosition(W.tm.previousGPS.lat, W.tm.previousGPS.lon)
        dx == currentPosition.x - previousPosition.x
        dz == currentPosition.z - previousPosition.z
        W1 == [W EXCEPT !.tm.lastKnownPosition = currentPosition]
    IN  IF dx * dx + dz * dz < MinDistanceTenths * MinDistanceTenths
        THEN W1
        ELSE StartTimeline(W1, currentPosition)

\* processGPSData taking the update's current point for the previous one at
\* the first acceptance.
processGPSDataPreviousIsCurrent(W, gpsData) ==
  IF gpsData.current = NULL THEN stopTramMovement(W)
  ELSE IF isGPSDataStale(gpsData.current.timestamp, now)
  THEN stopTramMovement(W)
  ELSE IF W.tm.currentGPS = NULL
  THEN positionTramImmediately(
         [W EXCEPT !.tm.currentGPS = gpsData.current,
                   !.tm.previousGPS = gpsData.current],
         gpsData.current.lat, gpsData.current.lon)
  ELSE IF ~hasGPSChanged(gpsData.current, W.tm.currentGPS)
  THEN stopTramMovement(W)
  ELSE updateTramPosition(
         [W EXCEPT !.tm.previousGPS = W.tm.currentGPS,
                   !.tm.currentGPS = gpsData.current])

\* TramMovement.processGPSData
processGPSData(W, gpsData) ==
  IF gpsData.current = NULL THEN stopTramMovement(W)
  ELSE IF isGPSDataStale(gpsData.current.timestamp, now)
  THEN stopTramMovement(W)
  ELSE IF W.tm.currentGPS = NULL
  THEN positionTramImmediately(
         [W EXCEPT !.tm.currentGPS = gpsData.current,
                   !.tm.previousGPS =
                      IF gpsData.previous # NULL THEN gpsData.previous
                      ELSE gpsData.current],
         gpsData.current.lat, gpsData.current.lon)
  ELSE IF ~hasGPSChanged(gpsData.current, W.tm.currentGPS)
  THEN stopTramMovement(W)
  ELSE updateTramPosition(
         [W EXCEPT !.tm.previousGPS = W.tm.currentGPS,
                   !.tm.currentGPS = gpsData.current])

\* TramMovement.handleGPSUpdate
handleGPSUpdate(W, gpsData) ==
  IF gpsData.current # NULL THEN processGPSData(W, gpsData)
  ELSE stopTramMovement(W)

\* TramMovement.handleConnectionLoss
handleConnectionLoss(W) ==
  [stopTramMovement(W) EXCEPT !.tm.lastConnectionLoss = now]

\* handleConnectionRestored asking for the latest point but keeping the time
\* of the loss.
handleConnectionRestoredKeepsLoss(W) ==
  IF isConnectionHealthy(W, W.tm.webSocketGPS)
  THEN requestGPSData(W, W.tm.webSocketGPS)
  ELSE W

\* TramMovement.handleConnectionRestored
handleConnectionRestored(W) ==
  LET W1 == IF isConnectionHealthy(W, W.tm.webSocketGPS)
            THEN requestGPSData(W, W.tm.webSocketGPS)
            ELSE W
  IN  [W1 EXCEPT !.tm.lastConnectionLoss = Absent]

\* ------------------------------------------------------------ notification
\* WebSocketGPSService.notifyGPSUpdate: every callback of the list, in order.
\* The callbacks of the list are the reconciler's (setupWebSocketTracking):
\* each calls handleGPSUpdate.
RECURSIVE notifyGPSUpdateFrom(_, _, _)
notifyGPSUpdateFrom(W, n, data) ==
  IF n = 0 THEN W ELSE notifyGPSUpdateFrom(handleGPSUpdate(W, data), n - 1, data)

notifyGPSUpdate(W, s, data) ==
  notifyGPSUpdateFrom(W, W.svc[s].onGPSUpdateCallbacks, data)

\* The reconciler's connection-change callback (setupWebSocketTracking)
connectionCallback(W, connected) ==
  IF ~connected THEN handleConnectionLoss(W) ELSE handleConnectionRestored(W)

\* WebSocketGPSService.notifyConnectionChange
RECURSIVE notifyConnectionChangeFrom(_, _, _)
notifyConnectionChangeFrom(W, n, connected) ==
  IF n = 0 THEN W
  ELSE notifyConnectionChangeFrom(connectionCallback(W, connected), n - 1, connected)

notifyConnectionChange(W, s, connected) ==
  notifyConnectionChangeFrom([W EXCEPT !.changes = Append(@, <<s, connected>>)],
                             W.svc[s].onConnectionChangeCallbacks, connected)

\* WebSocketGPSService.notifyError: every callback of the list.  The callback
\* of the reconciler (setupWebSocketTracking) only logs.
notifyError(W, s) == [W EXCEPT !.errors = @ + W.svc[s].onErrorCallbacks]

\* ------------------------------------------------------------ socket handlers
\* setupEventHandlers: socket.on('connect')
onConnect(W, s) ==
  LET W1 == [W EXCEPT !.svc[s].isConnected = TRUE]
  IN  requestGPSData(notifyConnectionChange(W1, s, TRUE), s)

\* setupEventHandlers: socket.on('disconnect'), had it set the timer whatever
\* the reason.
onDisconnectAlwaysRetries(W, s, reason) ==
  LET W1 == [W EXCEPT !.svc[s].isConnected = FALSE]
      W2 == notifyConnectionChange(W1, s, FALSE)
  IN  [W2 EXCEPT !.svc[s].timers = @ + 1]

\* setupEventHandlers: socket.on('disconnect'); a server-initiated disconnect
\* sets a timer that calls connect().
onDisconnect(W, s, reason) ==
  LET W1 == [W EXCEPT !.svc[s].isConnected = FALSE]
      W2 == notifyConnectionChange(W1, s, FALSE)
  IN  IF reason = "io server disconnect"
      THEN [W2 EXCEPT !.svc[s].timers = @ + 1]
      ELSE W2

\* WebSocketGPSService.processGPSData: whether the message is accepted
isAccepted(gpsData) == isValidGPSData(gpsData.c) /\ isValidGPSData(gpsData.p)

\* WebSocketGPSService.processGPSData: the update built from an accepted
\* message; a point without a time is given one.
buildUpdate(gpsData) ==
  [current |-> [lat |-> gpsData.c.lat, lon |-> gpsData.c.lon,
                timestamp |-> IF gpsData.c.t # Absent THEN gpsData.c.t ELSE now],
   previous |-> [lat |-> gpsData.p.lat, lon |-> gpsData.p.lon,
                 timestamp |-> IF gpsData.p.t # Absent THEN gpsData.p.t
                               ELSE now - PreviousAgeMs]]

\* WebSocketGPSService.processGPSData; reading gpsData.c of a message that is
\* null or undefined throws a TypeError, which leaves the socket's handler.
processMessage(W, s, gpsData) ==
  IF gpsData = NULL THEN [W EXCEPT !.thrown = TRUE]
  ELSE IF ~isAccepted(gpsData) THEN W
  ELSE notifyGPSUpdate(W, s, buildUpdate(gpsData))

\* socket.io's socket.disconnect(): a connected socket closes and its
\* 'disconnect' handler runs at once, with the reason 'io client disconnect';
\* a socket that is not connected just closes.
socketDisconnect(W, s) ==
  LET was == W.svc[s].socket
      W1 == [W EXCEPT !.svc[s].socket = "disconnected"]
  IN  IF was = "connected" THEN onDisconnect(W1, s, "io client disconnect") ELSE W1

\* A socket is live while it is connecting or connected: only then does it
\* emit events.
Live == {"connecting", "connected"}

\* this.socket = io(...): the client's socket field now refers to a new
\* socket; the one it referred to goes on emitting events if it is live.
NewSocket(W, s) ==
  [W EXCEPT !.svc[s].socket = "connecting",
            !.svc[s].replaced = IF W.svc[s].socket \in Live THEN @ + 1 ELSE @]

\* connect() creating the new socket without disconnecting the previous one.
connectKeepsPrevious(W, s) == NewSocket(W, s)

\* WebSocketGPSService.connect
connect(W, s) ==
  LET W1 == IF W.svc[s].socket # "null" THEN socketDisconnect(W, s) ELSE W
  IN  NewSocket(W1, s)

\* WebSocketGPSService.disconnect, had socket.disconnect() not run the
\* 'disconnect' handler of a connected socket before it returns.
disconnectUnannounced(W, s) ==
  [W EXCEPT !.svc[s].socket = "null", !.svc[s].isConnected = FALSE,
            !.svc[s].disconnectCalled = TRUE]

\* WebSocketGPSService.disconnect
disconnect(W, s) ==
  LET W1 == IF W.svc[s].socket # "null"
            THEN [socketDisconnect(W, s) EXCEPT !.svc[s].socket = "null"]
            ELSE W
  IN  [W1 EXCEPT !.svc[s].isConnected = FALSE, !.svc[s].disconnectCalled = TRUE]

\* WebSocketGPSService.forceReconnect
forceReconnect(W, s) ==
  LET W1 == IF W.svc[s].socket # "null" THEN socketDisconnect(W, s) ELSE W
  IN  [W1 EXCEPT !.svc[s].timers = @ + 1]

\* WebSocketGPSService's constructor: a client with empty subscriber lists,
\* which connects at once.
NewService ==
  [socket |-> "connecting", isConnected |-> FALSE, timers |-> 0,
   onGPSUpdateCallbacks |-> 0, onConnectionChangeCallbacks |-> 0,
   onErrorCallbacks |-> 0, disconnectCalled |-> FALSE, replaced |-> 0]

\* ------------------------------------------------------------ TramMovement's API
\* TramMovement.setupWebSocketTracking: one more callback on each list of the
\* current client; the three handles now refer to these callbacks.
setupWebSocketTracking(W) ==
  LET s == W.tm.webSocketGPS
      W1 == [W EXCEPT !.svc[s].onGPSUpdateCallbacks = @ + 1,
                      !.svc[s].onConnectionChangeCallbacks = @ + 1,
                      !.svc[s].onErrorCallbacks = @ + 1,
                      !.tm.unsubscribeGPS = s,
                      !.tm.unsubscribeConnection = s,
                      !.tm.unsubscribeError = s]
  IN  requestGPSData(W1, s)

\* TramMovement.startRealTimeTracking
startRealTimeTracking(W) ==
  IF ~W.tm.isRealTimeMode THEN W ELSE setupWebSocketTracking(W)

\* TramMovement.start
start(W) ==
  IF ~W.tm.isRealTimeMode
  THEN startRealTimeTracking([W EXCEPT !.tm.isRealTimeMode = TRUE])
  ELSE W

\* TramMovement.stop
stop(W) ==
  LET W1 == [W EXCEPT !.tm.isMoving = FALSE]
      old == W1.tm.currentTween
      W2 == IF old # NULL
            THEN [Dropped(W1, kill(old)) EXCEPT !.tm.currentTween = NULL]
            ELSE W1
      g == W2.tm.unsubscribeGPS
      W3 == IF g # 0
            THEN [W2 EXCEPT !.svc[g].onGPSUpdateCallbacks = @ - 1,
                            !.tm.unsubscribeGPS = 0]
            ELSE W2
      c == W3.tm.unsubscribeConnection
      W4 == IF c # 0
            THEN [W3 EXCEPT !.svc[c].onConnectionChangeCallbacks = @ - 1,
                            !.tm.unsubscribeConnection = 0]
            ELSE W3
      e == W4.tm.unsubscribeError
      W5 == IF e # 0
            THEN [W4 EXCEPT !.svc[e].onErrorCallbacks = @ - 1,
                            !.tm.unsubscribeError = 0]
            ELSE W4
  IN  [W5 EXCEPT !.tm.isRealTimeMode = FALSE]

\* TramMovement.switchToFallbackMode: a gsap.to() that no field keeps
switchToFallbackMode(W) ==
  LET W1 == [W EXCEPT !.tm.isRealTimeMode = FALSE]
  IN  IF Len(fallbackGPSPoints) > 0
      THEN LET firstPoint == fallbackGPSPoints[1]
               position == calculatePosition(firstPoint.lat, firstPoint.lon)
           IN  [W1 EXCEPT !.orphans = Append(@, NewTween("to", position))]
      ELSE W1

\* TramMovement.updateFromLiveGPS
updateFromLiveGPS(W, lat, lon) ==
  LET newGPS == [lat |-> lat, lon |-> lon, timestamp |-> now]
  IN  updateTramPosition(
        [W EXCEPT !.tm.previousGPS =
                     IF W.tm.currentGPS # NULL THEN W.tm.currentGPS ELSE newGPS,
                  !.tm.currentGPS = newGPS])

\* TramMovement.handleConnectionError
handleConnectionError(W) ==
  IF W.tm.lastKnownPosition # NULL THEN W
  ELSE IF W.tm.currentGPS = NULL /\ Len(fallbackGPSPoints) > 0
  THEN LET firstPoint == fallbackGPSPoints[1]
           W1 == [W EXCEPT !.tm.currentGPS =
                    [lat |-> firstPoint.lat, lon |-> firstPoint.lon, timestamp |-> now]]
           W2 == IF Len(fallbackGPSPoints) > 1
                 THEN [W1 EXCEPT !.tm.previousGPS =
                         [lat |-> fallbackGPSPoints[2].lat,
                          lon |-> fallbackGPSPoints[2].lon,
                          timestamp |-> now - PreviousAgeMs]]
                 ELSE W1
       IN  updateTramPosition(W2)
  ELSE W

\* TramMovement.configureWebSocket
configureWebSocket(W) ==
  LET W1 == disconnect(W, W.tm.webSocketGPS)
      W2 == [W1 EXCEPT !.svc = Append(@, NewService),
                       !.tm.webSocketGPS = Len(W1.svc) + 1]
  IN  IF W2.tm.isRealTimeMode THEN startRealTimeTracking(W2) ELSE W2

\* TramMovement.getProgress: the fields that vary
getProgress(W) ==
  [isMoving |-> W.tm.isRealTimeMode,
   realTimeMode |-> W.tm.isRealTimeMode,
   currentGPS |-> W.tm.currentGPS,
   previousGPS |-> W.tm.previousGPS,
   isConnectionHealthy |-> isConnectionHealthy(W, W.tm.webSocketGPS),
   lastConnectionLoss |-> W.tm.lastConnectionLoss]

\* TramMovement.dispose
dispose(W) == disconnect(stop(W), W.tm.webSocketGPS)

\* ------------------------------------------------------------ subscribers
\* The callbacks a caller may subscribe with onGPSUpdate: one that returns, one
\* that throws, and one that calls its own unsubscribe handle when it is called.
Callbacks == {"returns", "throws", "unsubscribes"}

\* Array.prototype.indexOf, counting from 1; 0 when absent.
RECURSIVE indexOfFrom(_, _, _)
indexOfFrom(list, callback, i) ==
  IF i > Len(list) THEN 0
  ELSE IF list[i] = callback THEN i
  ELSE indexOfFrom(list, callback, i + 1)

indexOf(list, callback) == indexOfFrom(list, callback, 1)

\* WebSocketGPSService.onGPSUpdate
onGPSUpdate(b, callback) == [b EXCEPT !.callbacks = Append(@, callback)]

\* The unsubscribe handle onGPSUpdate returns
unsubscribe(b, callback) ==
  LET index == indexOf(b.callbacks, callback)
  IN  IF index > 0
      THEN [b EXCEPT !.callbacks =
              SubSeq(@, 1, index - 1) \o SubSeq(@, index + 1, Len(@))]
      ELSE b

\* What a subscribed callback does when it is called with message data; an
\* exception is caught by notifyGPSUpdate.
call(b, callback, data) ==
  LET b1 == [b EXCEPT !.heard[callback] = Append(@, data)]
  IN  IF callback = "unsubscribes" THEN unsubscribe(b1, callback) ELSE b1

\* Array.prototype.forEach over this.onGPSUpdateCallbacks: the indices below
\* the length the array had at the start, each read from the array as it is
\* when its turn comes, and skipped when the array has become shorter.
RECURSIVE forEach(_, _, _, _)
forEach(b, k, len, data) ==
  IF k > len THEN b
  ELSE IF k > Len(b.callbacks) THEN forEach(b, k + 1, len, data)
  ELSE forEach(call(b, b.callbacks[k], data), k + 1, len, data)

\* WebSocketGPSService.notifyGPSUpdate, for the accepted message number data
notifyGPSUpdateAll(b, data) ==
  forEach([b EXCEPT !.arrived = data, !.before = b.callbacks],
          1, Len(b.callbacks), data)

\* ------------------------------------------------------------ rotation
\* Angles are in eighths of a turn: Math.PI is 4.
PI == 4

\* updateTramPosition: modelForwardOffset, -Math.PI / 2
modelForwardOffset == -(PI \div 2)

\* The directions of a displacement (dx, dz): the eight of the compass.
Directions == ({-1, 0, 1} \X {-1, 0, 1}) \ {<<0, 0>>}

\* Math.atan2(dx, dz): the angle of the direction, in (-PI, PI].
atan2(dx, dz) ==
  CASE dx = 0 /\ dz = 1 -> 0
    [] dx = 1 /\ dz = 1 -> 1
    [] dx = 1 /\ dz = 0 -> 2
    [] dx = 1 /\ dz = -1 -> 3
    [] dx = 0 /\ dz = -1 -> 4
    [] dx = -1 /\ dz = -1 -> -3
    [] dx = -1 /\ dz = 0 -> -2
    [] dx = -1 /\ dz = 1 -> -1

\* updateTramPosition: the rotation delta, wrapped once each way.
rotationDiff(targetRotation, currentRotation) ==
  LET d0 == targetRotation - currentRotation
      d1 == IF d0 > PI THEN d0 - 2 * PI ELSE d0
  IN  IF d1 < -PI THEN d1 + 2 * PI ELSE d1

\* updateTramPosition: the rotation tween of the timeline it builds for a
\* displacement (dx, dz) when tram.rotation.y is y.  (The tween is left out
\* when the delta is within 0.05 rad, which is less than an eighth of a turn.)
rotationTween(y, dx, dz) ==
  LET targetRotation == atan2(dx, dz) + modelForwardOffset
  IN  [y |-> y, targetRotation |-> targetRotation,
       rotationDiff |-> rotationDiff(targetRotation, y)]

\* ------------------------------------------------------------ connection attempts
\* WebSocketGPSService's constructor: this.maxConnectionAttempts, and the
\* default of config.reconnectionAttempts
maxConnectionAttempts == 5
reconnectionAttempts == 5

\* The values a caller configures reconnectionAttempts with.
Ceilings ==
  {maxConnectionAttempts - 1, reconnectionAttempts, maxConnectionAttempts + 1}

\* new WebSocketGPSService({reconnectionAttempts: n}): the counter at 0 and a
\* first socket opening.  attempts is the number of reconnection attempts
\* socket.io has made for the socket since it was last open; exhausted says
\* it has given up; surfaced says an error event was delivered since the
\* client was last connected.
NewLink(n) ==
  [reconnectionAttempts |-> n, connectionAttempts |-> 0, attempts |-> 0,
   socket |-> "opening", timer |-> FALSE, exhausted |-> FALSE,
   surfaced |-> FALSE]

\* socket.io's reconnection, configured by the options connect() passes to
\* io(): another attempt unless reconnectionAttempts of them have been made.
reconnect(L) ==
  IF L.attempts >= L.reconnectionAttempts
  THEN [L EXCEPT !.attempts = 0, !.socket = "closed", !.exhausted = TRUE]
  ELSE [L EXCEPT !.attempts = @ + 1, !.socket = "opening"]

\* setupEventHandlers: socket.on('connect_error')
onConnectError(L) ==
  LET L1 == [L EXCEPT !.connectionAttempts = @ + 1]
  IN  IF L1.connectionAttempts >= maxConnectionAttempts
      THEN [L1 EXCEPT !.surfaced = TRUE]
      ELSE L1

\* setupEventHandlers: socket.on('connect'), as far as the attempts go
onConnectResets(L) ==
  [L EXCEPT !.socket = "connected", !.connectionAttempts = 0, !.attempts = 0,
            !.exhausted = FALSE, !.surfaced = FALSE]

\* WebSocketGPSService.connect, as far as the attempts go: a new socket.
connectAgain(L) ==
  [L EXCEPT !.socket = "opening", !.attempts = 0, !.exhausted = FALSE]

\* ------------------------------------------------------------ initial state
\* TramMovement's constructor: the fields, a first channel client, and
\* startRealTimeTracking().
Constructed ==
  startRealTimeTracking(
    [tm |-> [isMoving |-> FALSE, currentTween |-> NULL,
             currentGPS |-> NULL, previousGPS |-> NULL,
             isRealTimeMode |-> TRUE, lastKnownPosition |-> NULL,
             lastConnectionLoss |-> Absent, webSocketGPS |-> 1,
             unsubscribeGPS |-> 0, unsubscribeConnection |-> 0,
             unsubscribeError |-> 0],
     tram |-> [x |-> 0, z |-> 0],
     orphans |-> <<>>,
     svc |-> <<NewService>>,
     sent |-> 0, changes |-> <<>>, errors |-> 0, thrown |-> FALSE])

\* The record of a step: which handler ran (the ones in Recorded by name), the
\* timestamp of the update it delivered to the subscribers (Absent when it
\* delivered none), and how many 'request-gps-data' signals it emitted.
Recorded == {"gps-data", "connect"}

Event(op, t, sent) ==
  [op |-> IF op \in Recorded THEN op ELSE "other", t |-> t, sent |-> sent]

Init ==
  /\ tm = Constructed.tm
  /\ tram = Constructed.tram
  /\ orphans = Constructed.orphans
  /\ services = Constructed.svc
  /\ disposed = FALSE
  /\ last = Event("constructor", Absent, Constructed.sent)
  /\ bus = [callbacks |-> <<>>, before |-> <<>>, arrived |-> 0,
            heard |-> [cb \in Callbacks |-> <<>>]]
  /\ link = NewLink(reconnectionAttempts)
  /\ turn = [y |-> 0, targetRotation |-> 0, rotationDiff |-> 0, ended |-> "never"]

RECURSIVE Sum(_, _)
Sum(f, n) == IF n = 0 THEN 0 ELSE f[n] + Sum(f, n - 1)

\* What has piled up in world W.
Load(W) ==
  LET s == W.tm.webSocketGPS
      lost == W.svc[s].onGPSUpdateCallbacks
                - (IF W.tm.unsubscribeGPS = s THEN 1 ELSE 0)
      timers == [i \in 1 .. Len(W.svc) |-> W.svc[i].timers]
  IN  (Len(W.svc) - 1) + Len(W.orphans) + Sum(timers, Len(W.svc)) + lost

\* One step: the world after the handler, and what the step was.
Becomes(W, op, t) ==
  /\ Load(W) <= MaxLoad
  /\ tm' = W.tm
  /\ tram' = W.tram
  /\ orphans' = W.orphans
  /\ services' = W.svc
  /\ last' = Event(op, t, W.sent)
  /\ UNCHANGED <<bus, link, turn>>

Services == 1 .. Len(services)

\* ------------------------------------------------------------ the transport
\* The socket of client s connects: socket.on('connect').
SocketConnect(s) ==
  /\ services[s].socket = "connecting"
  /\ Becomes(onConnect([World EXCEPT !.svc[s].socket = "connected"], s),
             "connect", Absent)
  /\ UNCHANGED disposed

\* The server closes the socket of client s: socket.io does not reconnect
\* such a socket by itself.
ServerDisconnect(s) ==
  /\ services[s].socket = "connected"
  /\ Becomes(onDisconnect([World EXCEPT !.svc[s].socket = "disconnected"], s,
                          "io server disconnect"),
             "disconnect", Absent)
  /\ UNCHANGED disposed

\* The transport of client s is lost: socket.io reconnects the socket.
TransportClose(s) ==
  /\ services[s].socket = "connected"
  /\ Becomes(onDisconnect([World EXCEPT !.svc[s].socket = "connecting"], s,
                          "transport close"),
             "disconnect", Absent)
  /\ UNCHANGED disposed

\* A 'gps-data' or 'gps-data-update' message arrives on client s.
GPSData(s, gpsData) ==
  /\ services[s].socket = "connected"
  /\ Becomes(processMessage(World, s, gpsData), "gps-data",
             IF isAccepted(gpsData) THEN buildUpdate(gpsData).current.timestamp
             ELSE Absent)
  /\ UNCHANGED disposed

\* A reconnect timer of client s fires: () => this.connect().
TimerFires(s) ==
  /\ services[s].timers > 0
  /\ Becomes(connect([World EXCEPT !.svc[s].timers = @ - 1], s), "timer", Absent)
  /\ UNCHANGED disposed

\* ------------------------------------------------------------ the animation engine
Halfway(from, to) ==
  [x |-> from.x + (to.x - from.x) \div 2, z |-> from.z + (to.z - from.z) \div 2]

\* gsap renders a frame of the timeline of tm.currentTween: the tram moves
\* to a value between where it is and the target.
TweenAdvances ==
  /\ IsActive(tm.currentTween)
  /\ Halfway(tram, tm.currentTween.target) # tram
  /\ Becomes([World EXCEPT !.tram = Halfway(tram, tm.currentTween.target)],
             "render", Absent)
  /\ UNCHANGED disposed

\* The timeline of tm.currentTween arrives: its onComplete runs.
TweenCompletes ==
  /\ IsActive(tm.currentTween)
  /\ Becomes([World EXCEPT !.tram = tm.currentTween.target,
                           !.tm.currentTween.status = "completed",
                           !.tm.isMoving = FALSE],
             "complete", Absent)
  /\ UNCHANGED disposed

Without(seq, i) == SubSeq(seq, 1, i - 1) \o SubSeq(seq, i + 1, Len(seq))

\* gsap renders a frame of an untracked animation.
OrphanAdvances(i) ==
  /\ Halfway(tram, orphans[i].target) # tram
  /\ Becomes([World EXCEPT !.tram = Halfway(tram, orphans[i].target)], "render", Absent)
  /\ UNCHANGED disposed

\* An untracked animation arrives; a timeline's onComplete runs.
OrphanCompletes(i) ==
  /\ Becomes([World EXCEPT !.tram = orphans[i].target,
                           !.orphans = Without(@, i),
                           !.tm.isMoving =
                              IF orphans[i].kind = "timeline" THEN FALSE ELSE @],
             "complete", Absent)
  /\ UNCHANGED disposed

\* ------------------------------------------------------------ the caller
Start ==
  /\ ~disposed
  /\ Becomes(start(World), "start", Absent)
  /\ UNCHANGED disposed

Stop ==
  /\ ~disposed
  /\ Becomes(stop(World), "stop", Absent)
  /\ UNCHANGED disposed

SwitchToFallbackMode ==
  /\ ~disposed
  /\ Becomes(switchToFallbackMode(World), "switchToFallbackMode", Absent)
  /\ UNCHANGED disposed

UpdateFromLiveGPS(c) ==
  /\ ~disposed
  /\ Becomes(updateFromLiveGPS(World, c[1], c[2]), "updateFromLiveGPS", Absent)
  /\ UNCHANGED disposed

HandleConnectionError ==
  /\ ~disposed
  /\ Becomes(handleConnectionError(World), "handleConnectionError", Absent)
  /\ UNCHANGED disposed

ConfigureWebSocket ==
  /\ ~disposed
  /\ Becomes(configureWebSocket(World), "configureWebSocket", Absent)
  /\ UNCHANGED disposed

ForceReconnect ==
  /\ ~disposed
  /\ Becomes(forceReconnect(World, tm.webSocketGPS), "forceReconnect", Absent)
  /\ UNCHANGED disposed

Dispose ==
  /\ ~disposed
  /\ Becomes(dispose(World), "dispose", Absent)
  /\ disposed' = TRUE

Next ==
  \/ \E s \in Services : SocketConnect(s)
  \/ \E s \in Services : ServerDisconnect(s)
  \/ \E s \in Services : TransportClose(s)
  \/ \E s \in Services : \E gpsData \in Messages : GPSData(s, gpsData)
  \/ \E s \in Services : TimerFires(s)
  \/ TweenAdvances
  \/ TweenCompletes
  \/ \E i \in 1 .. Len(orphans) : OrphanAdvances(i)
  \/ \E i \in 1 .. Len(orphans) : OrphanCompletes(i)
  \/ Start
  \/ Stop
  \/ SwitchToFallbackMode
  \/ \E c \in Coords : UpdateFromLiveGPS(c)
  \/ HandleConnectionError
  \/ ConfigureWebSocket
  \/ ForceReconnect
  \/ Dispose

Spec == Init /\ [][Next]_vars

\* ------------------------------------------------------------ dispatch
\* A caller subscribes a callback that is not subscribed.
Subscribe(callback) ==
  /\ indexOf(bus.callbacks, callback) = 0
  /\ bus' = onGPSUpdate(bus, callback)
  /\ UNCHANGED <<tm, tram, orphans, services, disposed, last, link, turn>>

\* A caller calls the unsubscribe handle of a subscribed callback.
Unsubscribe(callback) ==
  /\ indexOf(bus.callbacks, callback) > 0
  /\ bus' = unsubscribe(bus, callback)
  /\ UNCHANGED <<tm, tram, orphans, services, disposed, last, link, turn>>

\* The next accepted message arrives and is dispatched.
Notify ==
  /\ bus.arrived < MaxMessages
  /\ bus' = notifyGPSUpdateAll(bus, bus.arrived + 1)
  /\ UNCHANGED <<tm, tram, orphans, services, disposed, last, link, turn>>

DispatchNext ==
  \/ \E callback \in Callbacks : Subscribe(callback)
  \/ \E callback \in Callbacks : Unsubscribe(callback)
  \/ Notify

DispatchSpec == Init /\ [][DispatchNext]_vars

\* ------------------------------------------------------------ reconnection
\* A caller replaces the client by one configured with n reconnection attempts.
Construct(n) ==
  /\ link' = NewLink(n)
  /\ UNCHANGED <<tm, tram, orphans, services, disposed, last, bus, turn>>

\* A connection attempt fails: 'connect_error', then socket.io tries again or
\* gives up.
AttemptFails ==
  /\ link.socket = "opening"
  /\ link.connectionAttempts < MaxCounted
  /\ link' = reconnect(onConnectError(link))
  /\ UNCHANGED <<tm, tram, orphans, services, disposed, last, bus, turn>>

\* A connection attempt succeeds: 'connect'.
AttemptSucceeds ==
  /\ link.socket = "opening"
  /\ link' = onConnectResets(link)
  /\ UNCHANGED <<tm, tram, orphans, services, disposed, last, bus, turn>>

\* The connection is lost (any reason but a disconnect by the server or by the
\* client): socket.io starts reconnecting.
TransportLost ==
  /\ link.socket = "connected"
  /\ link' = reconnect(link)
  /\ UNCHANGED <<tm, tram, orphans, services, disposed, last, bus, turn>>

\* The server disconnects the socket: socket.io does not reconnect it, the
\* 'disconnect' handler sets a timer.
ServerCloses ==
  /\ link.socket = "connected"
  /\ link' = [link EXCEPT !.socket = "closed", !.timer = TRUE]
  /\ UNCHANGED <<tm, tram, orphans, services, disposed, last, bus, turn>>

\* The timer of the 'disconnect' handler fires: () => this.connect().
ReconnectTimerFires ==
  /\ link.timer
  /\ link' = [connectAgain(link) EXCEPT !.timer = FALSE]
  /\ UNCHANGED <<tm, tram, orphans, services, disposed, last, bus, turn>>

\* A caller calls connect().
ManualConnect ==
  /\ link' = connectAgain(link)
  /\ UNCHANGED <<tm, tram, orphans, services, disposed, last, bus, turn>>

RetryNext ==
  \/ \E n \in Ceilings : Construct(n)
  \/ AttemptFails
  \/ AttemptSucceeds
  \/ TransportLost
  \/ ServerCloses
  \/ ReconnectTimerFires
  \/ ManualConnect

RetrySpec == Init /\ [][RetryNext]_vars

\* ------------------------------------------------------------ turning
\* A transition for a displacement in direction d starts and its rotation
\* tween runs to its end: tram.rotation.y is currentRotation + rotationDiff.
TurnCompletes(d) ==
  LET tween == rotationTween(turn.y, d[1], d[2])
  IN  /\ Abs(tween.y + tween.rotationDiff) <= MaxRotation
      /\ turn' = [y |-> tween.y + tween.rotationDiff,
                  targetRotation |-> tween.targetRotation,
                  rotationDiff |-> tween.rotationDiff, ended |-> "completed"]
      /\ UNCHANGED <<tm, tram, orphans, services, disposed, last, bus, link>>

\* A transition for a displacement in direction d starts and is killed when
\* its rotation tween is half-way.
TurnCancelled(d) ==
  LET tween == rotationTween(turn.y, d[1], d[2])
  IN  /\ Abs(tween.y + tween.rotationDiff) <= MaxRotation
      /\ turn' = [y |-> tween.y + tween.rotationDiff \div 2,
                  targetRotation |-> tween.targetRotation,
                  rotationDiff |-> tween.rotationDiff, ended |-> "cancelled"]
      /\ UNCHANGED <<tm, tram, orphans, services, disposed, last, bus, link>>

TurnNext ==
  \/ \E d \in Directions : TurnCompletes(d)
  \/ \E d \in Directions : TurnCancelled(d)

TurnSpec == Init /\ [][TurnNext]_vars

\* ------------------------------------------------------------ properties
\* The messages a server can push, beyond the ones the runs deliver.
Inbound ==
  [c : CValues \cup {[lat |-> c[1], lon |-> c[2], t |-> t] :
                      c \in Coords \cup {Near},
                      t \in {Absent, now - 1, now - StaleThresholdMs - 1}},
   p : {NULL, PValue,
        [lat |-> fallbackGPSPoints[1].lat, lon |-> centerLon, t |-> now - 1]}]

\* The updates the channel client hands to its subscribers.
Updates == {buildUpdate(m) : m \in {i \in Inbound : isAccepted(i)}}

Fresh(u) == ~isGPSDataStale(u.current.timestamp, now)

\* Updates whose current point is too old or has no time.
StaleUpdates ==
  {[u EXCEPT !.current.timestamp = t] :
     u \in Updates, t \in {Absent, now - StaleThresholdMs - 1}}

\* C1: at most one animation is in flight against the tram at any time.
C1_AtMostOneTransition == Len(InFlight(World)) <= 1

\* C2: a fresh update within the change tolerance of currentGPS leaves
\* currentGPS, previousGPS, isMoving and the transition in flight as they were.
C2_UnchangedUpdateChangesNothing ==
  \A u \in Updates :
    (Fresh(u) /\ tm.currentGPS # NULL /\ ~hasGPSChanged(u.current, tm.currentGPS))
      => LET W == processGPSData(World, u)
         IN  /\ W.tm.currentGPS = tm.currentGPS
             /\ W.tm.previousGPS = tm.previousGPS
             /\ W.tm.isMoving = tm.isMoving
             /\ W.tm.currentTween = tm.currentTween
             /\ W.orphans = orphans

\* C3: a stale update (too old, or without a time) starts no transition and
\* changes neither currentGPS nor previousGPS, whatever its coordinates and
\* whether or not a point has been accepted before.
C3_StaleUpdateKeepsPoints ==
  /\ \A u \in StaleUpdates :
       LET W == handleGPSUpdate(World, u)
       IN  /\ W.tm.currentGPS = tm.currentGPS
           /\ W.tm.previousGPS = tm.previousGPS
           /\ ~IsActive(W.tm.currentTween)
           /\ W.orphans = orphans
           /\ ~W.tm.isMoving
  /\ \A s \in Services : \A m \in Inbound :
       (isAccepted(m) /\ ~Fresh(buildUpdate(m)))
         => LET W == processMessage(World, s, m)
            IN  /\ W.tm.currentGPS = tm.currentGPS
                /\ W.tm.previousGPS = tm.previousGPS
                /\ W.tm.currentTween \in {NULL, tm.currentTween}
                /\ W.orphans = orphans

\* A stale update has frozen the tram on its way to the last accepted point.
C3_Witness ==
  /\ last.op = "gps-data"
  /\ last.t = now - StaleThresholdMs - 1
  /\ tm.currentGPS # NULL
  /\ tm.currentTween = NULL
  /\ tram # tm.lastKnownPosition

\* C4: once a point is accepted, a pushed message that is valid, fresh and
\* more than the tolerance away from currentGPS leaves a transition to its
\* projection in flight, with isMoving true, previousGPS the old current point
\* and currentGPS the new one.
C4_PushedChangeStartsTransition ==
  tm.currentGPS # NULL =>
    \A s \in Services : \A m \in Inbound :
      (isAccepted(m) /\ Fresh(buildUpdate(m))
         /\ services[s].onGPSUpdateCallbacks > 0
         /\ hasGPSChanged(buildUpdate(m).current, tm.currentGPS))
        => LET W == processMessage(World, s, m)
           IN  /\ W.tm.isMoving
               /\ IsActive(W.tm.currentTween)
               /\ W.tm.currentTween.target = calculatePosition(m.c.lat, m.c.lon)
               /\ W.tm.previousGPS = tm.currentGPS
               /\ W.tm.currentGPS = buildUpdate(m).current

\* C5 as stated: with no point accepted yet, every valid update delivered to
\* the reconciler is accepted, the tram is set to its projection, no transition
\* starts and isMoving stays false.
C5_EveryValidFirstUpdateAccepted ==
  tm.currentGPS = NULL =>
    \A u \in Updates \cup StaleUpdates :
      LET W == handleGPSUpdate(World, u)
      IN  /\ W.tm.currentGPS = u.current
          /\ W.tram = calculatePosition(u.current.lat, u.current.lon)
          /\ InFlight(W) = InFlight(World)
          /\ ~W.tm.isMoving

\* C5: with no point accepted yet, a pushed message that is valid and fresh is
\* accepted (currentGPS is its current point, the tram is at the projection of
\* that point, no transition starts, isMoving is false); a message that is
\* invalid, and an update that is stale, leave the reconciler uninitialised
\* and the tram where it is.
C5_FirstFreshUpdateAccepted ==
  tm.currentGPS = NULL =>
    /\ \A s \in Services : \A m \in Inbound :
         LET W == processMessage(World, s, m)
         IN  IF isAccepted(m) /\ Fresh(buildUpdate(m))
                /\ services[s].onGPSUpdateCallbacks > 0
             THEN /\ W.tm.currentGPS = buildUpdate(m).current
                  /\ W.tram = calculatePosition(m.c.lat, m.c.lon)
                  /\ InFlight(W) = InFlight(World)
                  /\ ~W.tm.isMoving
             ELSE /\ W.tm.currentGPS = NULL
                  /\ W.tram = tram
                  /\ InFlight(W) = InFlight(World)
                  /\ ~W.tm.isMoving
    /\ \A u \in StaleUpdates :
         LET W == handleGPSUpdate(World, u)
         IN  W.tm.currentGPS = NULL /\ W.tram = tram

\* A first fresh update has been accepted: the tram stands on its projection.
C5_Witness ==
  /\ last.op = "gps-data"
  /\ last.t = now
  /\ tm.currentGPS # NULL
  /\ tm.previousGPS.timestamp = now - PreviousAgeMs
  /\ tram = calculatePosition(tm.currentGPS.lat, tm.currentGPS.lon)
  /\ tm.currentTween = NULL
  /\ ~tm.isMoving

C7_ConnectionLossFreezesTram ==
  LET W == handleConnectionLoss(World)
  IN  /\ InFlight(W) = <<>>
      /\ W.tram = tram
      /\ ~W.tm.isMoving
      /\ W.tm.lastConnectionLoss = now
      /\ W.tm.currentGPS = tm.currentGPS
      /\ W.tm.previousGPS = tm.previousGPS

\* C8: whenever a channel client reports connected=true, the reconciler's
\* callback clears lastConnectionLoss and, if the current client is healthy,
\* emits 'request-gps-data', within the handling of the connect event (which
\* emits one request of its own).
C8_RestoredClearsLossAndRequests ==
  \A s \in Services :
    services[s].socket = "connecting" =>
      LET W0 == [World EXCEPT !.svc[s].socket = "connected",
                              !.svc[s].isConnected = TRUE]
          R == handleConnectionRestored(W0)
          W == onConnect([World EXCEPT !.svc[s].socket = "connected"], s)
          n == services[s].onConnectionChangeCallbacks
          healthy == isConnectionHealthy(W0, tm.webSocketGPS)
      IN  /\ R.tm.lastConnectionLoss = Absent
          /\ R.sent = IF healthy THEN 1 ELSE 0
          /\ n > 0 => W.tm.lastConnectionLoss = Absent
          /\ W.sent = 1 + (IF healthy THEN n ELSE 0)

\* The current client has connected after a point was accepted: the request
\* of the reconciler and the client's own have been emitted.
C8_Witness ==
  /\ last.op = "connect"
  /\ last.sent = 2
  /\ tm.currentGPS # NULL
  /\ tm.lastConnectionLoss = Absent
  /\ isConnectionHealthy(World, tm.webSocketGPS)

\* C9: once dispose() has returned, no animation is in flight, and every
\* channel client the instance has created has no transport and is not
\* connected, so that no callback of the reconciler can run.
C9_DisposedIsQuiet ==
  disposed =>
    /\ InFlight(World) = <<>>
    /\ \A s \in Services :
         services[s].socket = "null" /\ ~services[s].isConnected

\* C10: once disconnect() has been called on a channel client, it has no
\* pending retry timer, no transport, and isConnected is false.
C10_DisconnectStopsTimers ==
  \A s \in Services :
    services[s].disconnectCalled =>
      /\ services[s].timers = 0
      /\ services[s].socket = "null"
      /\ ~services[s].isConnected

\* Every value a socket.io 'disconnect' event can give as its reason.
Reasons ==
  {"io server disconnect", "io client disconnect", "ping timeout",
   "transport close", "transport error"}

\* C11: connect() on a client that is connected is a no-op: the transport is
\* kept, isConnected stays true and no connection change is notified.
C11_ConnectIsIdempotent ==
  \A s \in Services :
    (services[s].isConnected /\ services[s].socket = "connected")
      => LET W == connect(World, s)
         IN  /\ W.svc[s] = services[s]
             /\ W.changes = <<>>
             /\ W.tm = tm

C13_MessageWithoutPreviousDelivered ==
  \A s \in Services : \A m \in Inbound :
    (isValidGPSData(m.c) /\ m.p = NULL)
      => /\ isAccepted(m)
         /\ (services[s].onGPSUpdateCallbacks > 0 /\ tm.currentGPS = NULL
               /\ ~isGPSDataStale(IF m.c.t # Absent THEN m.c.t ELSE now, now))
              => processMessage(World, s, m).tm.currentGPS # NULL

\* C14: a message that is null, or whose c is missing or out of range, is
\* dropped: no exception leaves the handler, the subscribers to updates are
\* not called, and the error subscribers are.
C14_MalformedMessageRaisesErrorEvent ==
  \A s \in Services : \A m \in Inbound \cup {NULL} :
    (m = NULL \/ ~isValidGPSData(m.c))
      => LET W == processMessage(World, s, m)
         IN  /\ ~W.thrown
             /\ W.tm = tm
             /\ W.tram = tram
             /\ services[s].onErrorCallbacks > 0 => W.errors > 0

\* C15: each callback subscribed when an accepted message is dispatched is
\* called with it, once, and no other callback is; a callback hears the
\* messages in the order of their arrival.
C15_EverySubscriberCalledOnce ==
  \A callback \in Callbacks :
    LET h == bus.heard[callback]
    IN  /\ \A i \in 1 .. Len(h) - 1 : h[i] < h[i + 1]
        /\ bus.arrived > 0 =>
             (indexOf(bus.before, callback) > 0
                <=> (h # <<>> /\ h[Len(h)] = bus.arrived))

\* Every client whose isConnected differs between the state and world W has
\* had its connection-change subscribers called with the new value.
Announced(W) ==
  \A s \in Services :
    W.svc[s].isConnected # services[s].isConnected
      => \E i \in DOMAIN W.changes : W.changes[i] = <<s, W.svc[s].isConnected>>

C17_ExhaustedRetriesSurfaceError ==
  /\ link.attempts <= link.reconnectionAttempts
  /\ link.socket = "connected" => link.connectionAttempts = 0
  /\ link.exhausted => link.surfaced
  /\ link.exhausted => onConnectResets(connectAgain(link)).socket = "connected"

\* The world after the socket of client s has closed for the given reason.
Closed(s, reason) ==
  onDisconnect([World EXCEPT !.svc[s].socket =
                  IF reason \in {"io server disconnect", "io client disconnect"}
                  THEN "disconnected" ELSE "connecting"],
               s, reason)

\* C18: the 'disconnect' handler sets exactly one reconnect timer when the
\* reason is 'io server disconnect', and none for any other reason; the
\* timers of the other clients are left alone.
C18_OneTimerOnServerDisconnect ==
  \A s \in Services : \A reason \in Reasons :
    services[s].socket = "connected"
      => \A i \in Services :
           Closed(s, reason).svc[i].timers =
             services[i].timers
               + (IF i = s /\ reason = "io server disconnect" THEN 1 ELSE 0)

C18_Witness ==
  \E s \in Services :
    /\ services[s].socket = "connected"
    /\ services[s].timers = 0
    /\ Closed(s, "io server disconnect").svc[s].timers = 1
    /\ Closed(s, "transport close").svc[s].timers = 0
    /\ Closed(s, "io server disconnect").changes = << <<s, FALSE>> >>

\* The points a caller injects with updateFromLiveGPS.
Injected == Coords \cup {Near}

\* C19: an injected point within the tolerance of currentGPS changes neither
\* currentGPS nor previousGPS and starts no transition; a point injected when
\* no point has been accepted yet puts the tram at the projected position,
\* without an animation.
C19_InjectionIsChangeDetected ==
  \A c \in Injected :
    LET newGPS == [lat |-> c[1], lon |-> c[2], timestamp |-> now]
        W == updateFromLiveGPS(World, c[1], c[2])
    IN  IF tm.currentGPS = NULL
        THEN /\ W.tram = calculatePosition(c[1], c[2])
             /\ InFlight(W) = InFlight(World)
        ELSE ~hasGPSChanged(newGPS, tm.currentGPS)
               => /\ W.tm.currentGPS = tm.currentGPS
                  /\ W.tm.previousGPS = tm.previousGPS
                  /\ InFlight(W) = InFlight(World)

\* C20: while isRealTimeMode is false, no pushed message changes currentGPS or
\* previousGPS or starts a transition; and once the reconciler has accepted a
\* pushed update it is in real-time mode, and switchToFallbackMode,
\* handleConnectionError and stop leave it there.
C20_RealTimeIsAbsorbing ==
  \A s \in Services : \A m \in Inbound :
    LET W == processMessage(World, s, m)
    IN  /\ ~tm.isRealTimeMode
             => /\ W.tm.currentGPS = tm.currentGPS
                /\ W.tm.previousGPS = tm.previousGPS
                /\ InFlight(W) = InFlight(World)
        /\ (isAccepted(m) /\ W.tm.currentGPS = buildUpdate(m).current)
             => /\ W.tm.isRealTimeMode
                /\ switchToFallbackMode(W).tm.isRealTimeMode
                /\ handleConnectionError(W).tm.isRealTimeMode
                /\ stop(W).tm.isRealTimeMode

\* previousGPS of world W is null or not later than currentGPS.
Chronological(W) ==
  \/ W.tm.previousGPS = NULL
  \/ /\ W.tm.currentGPS # NULL
     /\ W.tm.previousGPS.timestamp <= W.tm.currentGPS.timestamp

\* C21: previousGPS is null or has a timestamp not later than currentGPS's,
\* in the state and after any pushed message, injection or
\* handleConnectionError.
C21_PreviousNotLaterThanCurrent ==
  /\ Chronological(World)
  /\ \A s \in Services : \A m \in Inbound :
       Chronological(processMessage(World, s, m))
  /\ \A c \in Injected : Chronological(updateFromLiveGPS(World, c[1], c[2]))
  /\ Chronological(handleConnectionError(World))

\* C22: the isMoving field of the status snapshot is true exactly when the
\* transition currentTween refers to is in flight.
C22_SnapshotReportsMovement ==
  getProgress(World).isMoving = IsActive(tm.currentTween)

\* Differences of a coordinate around the tolerance, in millionths of a degree.
Offsets ==
  {0, ToleranceMicroDeg, -ToleranceMicroDeg,
   ToleranceMicroDeg + 1, -(ToleranceMicroDeg + 1)}

\* C23: hasGPSChanged is true when the old point is absent; against the
\* accepted point it is false for identical coordinates and for differences
\* up to the tolerance, and true as soon as the latitude or the longitude
\* differs by more than the tolerance.
C23_ChangedMeansBeyondTolerance ==
  IF tm.currentGPS = NULL
  THEN \A u \in Updates : hasGPSChanged(u.current, tm.currentGPS)
  ELSE \A dlat \in Offsets : \A dlon \in Offsets :
         LET newGPS == [lat |-> tm.currentGPS.lat + dlat,
                        lon |-> tm.currentGPS.lon + dlon,
                        timestamp |-> now]
         IN  hasGPSChanged(newGPS, tm.currentGPS)
               <=> (Abs(dlat) = ToleranceMicroDeg + 1
                      \/ Abs(dlon) = ToleranceMicroDeg + 1)

C23_Witness ==
  /\ last.op = "gps-data"
  /\ tm.currentGPS # NULL
  /\ tm.previousGPS # NULL
  /\ hasGPSChanged(tm.currentGPS, tm.previousGPS)
  /\ tm.previousGPS.lat - tm.currentGPS.lat \in Offsets
  /\ ~hasGPSChanged([lat |-> Near[1], lon |-> Near[2], timestamp |-> now],
                    tm.currentGPS)

\* Accepted messages whose current point is stale.
StaleMessages == {m \in Inbound : isAccepted(m) /\ ~Fresh(buildUpdate(m))}

\* Accepted messages whose current point is fresh.
FreshMessages == {m \in Inbound : isAccepted(m) /\ Fresh(buildUpdate(m))}

\* C24: a stale message that reaches the reconciler while its transition is in
\* flight cancels the transition, leaves the tram where it is and sets
\* isMoving false; and the next fresh message more than the tolerance away
\* from currentGPS is accepted and leaves a transition to its point in flight.
C24_StaleFreezesAndIsNotAbsorbing ==
  \A s \in Services :
    (IsActive(tm.currentTween) /\ services[s].onGPSUpdateCallbacks > 0)
      => \A stale \in StaleMessages :
           LET W1 == processMessage(World, s, stale)
           IN  /\ W1.tm.currentTween = NULL
               /\ InFlight(W1) = orphans
               /\ W1.tram = tram
               /\ ~W1.tm.isMoving
               /\ \A fresh \in FreshMessages :
                    hasGPSChanged(buildUpdate(fresh).current, W1.tm.currentGPS)
                      => LET W2 == processMessage(W1, s, fresh)
                         IN  /\ W2.tm.currentGPS = buildUpdate(fresh).current
                             /\ W2.tm.isMoving
                             /\ IsActive(W2.tm.currentTween)
                             /\ W2.tm.currentTween.target =
                                  calculatePosition(fresh.c.lat, fresh.c.lon)

\* C25: the rotation delta of every transition is at most PI in magnitude, and
\* a rotation that runs to its end leaves the tram at the target rotation,
\* modulo a full turn.
C25_ShorterWayRound ==
  turn.ended # "never" =>
    /\ Abs(turn.rotationDiff) <= PI
    /\ turn.ended = "completed" => (turn.y - turn.targetRotation) % (2 * PI) = 0

\* The callbacks of the reconciler on the three lists of all its clients.
Subscriptions ==
  [update |-> Sum([s \in Services |-> services[s].onGPSUpdateCallbacks],
                  Len(services)),
   connection |-> Sum([s \in Services |-> services[s].onConnectionChangeCallbacks],
                      Len(services)),
   error |-> Sum([s \in Services |-> services[s].onErrorCallbacks], Len(services))]

\* C26: the reconciler has at most one update callback, one connection-change
\* callback and one error callback subscribed, all clients taken together.
C26_AtMostOneSubscription ==
  /\ Subscriptions.update <= 1
  /\ Subscriptions.connection <= 1
  /\ Subscriptions.error <= 1

\* C27: when the next event is dispatched, every callback that is subscribed
\* when the dispatch begins and still subscribed when it ends is called with
\* the event, once, whatever the other callbacks do.
C27_DispatchReachesEverySubscriber ==
  LET data == bus.arrived + 1
      b == notifyGPSUpdateAll(bus, data)
  IN  \A callback \in Callbacks :
        (indexOf(bus.callbacks, callback) > 0 /\ indexOf(b.callbacks, callback) > 0)
          => b.heard[callback] = Append(bus.heard[callback], data)

\* C28: isMoving is true only while currentTween refers to a transition that
\* has neither completed nor been cancelled.
C28_MovingOnlyWithLiveTransition ==
  tm.isMoving => IsActive(tm.currentTween)

\* A transition is in flight with isMoving true, and each way of ending it
\* (stopTramMovement, stop, a replacing update) leaves the two consistent.
C28_Witness ==
  /\ tm.isMoving
  /\ IsActive(tm.currentTween)
  /\ ~stopTramMovement(World).tm.isMoving
  /\ stopTramMovement(World).tm.currentTween = NULL
  /\ ~stop(World).tm.isMoving
  /\ \E c \in Injected :
       LET W == updateFromLiveGPS(World, c[1], c[2])
       IN  /\ W.tm.currentTween # tm.currentTween
           /\ W.tm.isMoving
           /\ IsActive(W.tm.currentTween)

\* The square of the distance between the projections of two points, in
\* tenths of a scene unit.
Displacement2(a, b) ==
  LET pa == calculatePosition(a.lat, a.lon)
      pb == calculatePosition(b.lat, b.lon)
  IN  (pa.x - pb.x) * (pa.x - pb.x) + (pa.z - pb.z) * (pa.z - pb.z)

\* C29: a fresh update delivered to the reconciler that differs from
\* currentGPS by more than the tolerance is at least the minimum distance away
\* in the scene, so updateTramPosition cancels the transition in flight and
\* starts one to the new point.
C29_ChangedUpdateIsNeverDiscarded ==
  tm.currentGPS # NULL =>
    \A u \in Updates :
      (Fresh(u) /\ hasGPSChanged(u.current, tm.currentGPS))
        => LET W == handleGPSUpdate(World, u)
           IN  /\ Displacement2(u.current, tm.currentGPS)
                    >= MinDistanceTenths * MinDistanceTenths
               /\ W.tm.currentTween = NewTween("timeline",
                    calculatePosition(u.current.lat, u.current.lon))
               /\ W.tm.isMoving
               /\ W.orphans = orphans

\* A transition is in flight; a pushed update beyond the tolerance would
\* replace it, while an injection of a point nearby is discarded by the
\* minimum-distance test and leaves it running.
C29_Witness ==
  /\ IsActive(tm.currentTween)
  /\ \E u \in Updates :
       /\ Fresh(u)
       /\ hasGPSChanged(u.current, tm.currentGPS)
       /\ handleGPSUpdate(World, u).tm.currentTween.target # tm.currentTween.target
  /\ LET W == updateFromLiveGPS(World, Near[1], Near[2])
     IN  /\ W.tm.currentGPS # tm.currentGPS
         /\ W.tm.currentTween = tm.currentTween

\* C30: no client has a live socket other than the one its socket field
\* refers to: none is left behind in the state, nor by connect() called now,
\* nor by connect() called after forceReconnect() or after the socket has
\* connected or the server has disconnected it.
C30_AtMostOneLiveTransport ==
  \A s \in Services :
    /\ services[s].replaced = 0
    /\ connect(World, s).svc[s].replaced = 0
    /\ connect(forceReconnect(World, s), s).svc[s].replaced = 0
    /\ services[s].socket = "connecting"
         => connect(onConnect([World EXCEPT !.svc[s].socket = "connected"], s),
                    s).svc[s].replaced = 0
    /\ services[s].socket = "connected"
         => connect(Closed(s, "io server disconnect"), s).svc[s].replaced = 0

\* connect() is called on a client whose socket is connected, with a
\* reconnect timer still to fire.
C30_Witness ==
  \E s \in Services :
    /\ services[s].socket = "connected"
    /\ services[s].isConnected
    /\ LET W == connect(forceReconnect(World, s), s)
       IN  /\ W.svc[s].socket = "connecting"
           /\ W.svc[s].timers = services[s].timers + 1
           /\ ~W.svc[s].isConnected
           /\ W.svc[s].replaced = 0

====
